---- MODULE Spec2Model ----
(***************************************************************************)
(* A model of the contact directory (ContactsService) and of the partner   *)
(* contactability gate (CpcValidationService).                             *)
(*                                                                         *)
(* Strings are sequences of one-character strings.  A nullable or optional *)
(* value is None (null / undefined) or Some(v).  A DTO is a record whose   *)
(* domain holds exactly the keys the caller provided.  Every store call is *)
(* one atomic step; a handler is a chain of such steps (one per await), so *)
(* that two handlers interleave exactly where the event loop lets them.    *)
(***************************************************************************)
EXTENDS Integers, Sequences, FiniteSets, TLC

VARIABLES
    contacts,   \* the Contact table: a set of rows
    nextId,     \* the table's autoincrement counter, also the logical clock
    convName,   \* contactName of every Conversation row
    pc,         \* per caller: the await its handler is suspended at
    call,       \* per caller: the arguments of the handler in flight
    found,      \* per caller: the row its lookup returned (const contact = ...)
    result,     \* per caller: "running", or how its last handler ended
    listed,     \* the last findAll: its arguments and the rows returned
    apiUrl,     \* CpcValidationService.apiUrl
    enabled,    \* CpcValidationService.enabled
    gpc,        \* the gate operation in flight: the await it is suspended at
    gcall,      \* the gate operation in flight: its name and phone argument
    trail,      \* the partner calls of the current gate operation, in order
    gresult,    \* what the last gate operation resolved to
    fmtIn,      \* a phone string handed to formatPhoneForPartner
    fmtOut,     \* its normalization
    fmtTwice    \* the normalization of its normalization

dirVars == <<contacts, nextId, convName, pc, call, found, result, listed>>
gateVars == <<apiUrl, enabled, gpc, gcall, trail, gresult>>
fmtVars == <<fmtIn, fmtOut, fmtTwice>>
vars == <<dirVars, gateVars, fmtVars>>

----------------------------------------------------------------------------
(* Values *)

None == <<>>
Some(v) == <<v>>

\* Largest id the autoincrement counter hands out in the model.
MaxId == 2

Procs == {"a", "b"}

P1 == <<"5", "1">>
P2 == <<"9">>
Phones == {P1, P2}

\* The Conversation rows (owned by another part of the system): their phones.
Convs == {"k1", "k2", "k3"}
ConvPhone == [c \in Convs |-> IF c = "k3" THEN P2 ELSE P1]

PlaceholderName == <<"D", "e", "s", "c", "o", "n", "h", "e", "c", "i", "d", "o">>

\* The names the Conversations start with: the placeholder on both phones, and
\* a name from another source.
InitConvName ==
    [c \in Convs |-> IF c = "k2" THEN Some(<<"Z">>) ELSE Some(PlaceholderName)]

IsSpace(c) == c \in {" ", "\t", "\n"}

RECURSIVE TrimStart(_)
TrimStart(s) ==
    IF s = <<>> THEN s
    ELSE IF IsSpace(Head(s)) THEN TrimStart(Tail(s)) ELSE s

RECURSIVE TrimEnd(_)
TrimEnd(s) ==
    IF s = <<>> THEN s
    ELSE IF IsSpace(s[Len(s)]) THEN TrimEnd(SubSeq(s, 1, Len(s) - 1)) ELSE s

Trim(s) == TrimEnd(TrimStart(s))

\* A faulty variant of HasName, for mutation analysis: the test without its trim() half.
HasNameUntrimmed(dto) ==
    /\ "name" \in DOMAIN dto
    /\ dto.name # None
    /\ dto.name[1] # <<>>

\* createContactDto.name && createContactDto.name.trim() !== ''
HasName(dto) ==
    /\ "name" \in DOMAIN dto
    /\ dto.name # None
    /\ dto.name[1] # <<>>
    /\ Trim(dto.name[1]) # <<>>

\* updateContactDto.name !== undefined && updateContactDto.name !== contact.name
NameChanged(dto, contact) ==
    /\ "name" \in DOMAIN dto
    /\ dto.name # contact.name

----------------------------------------------------------------------------
(* The store *)

\* Column defaults of a new Contact row.
ContactDefaults(id, t) ==
    [id |-> id, phone |-> <<>>, name |-> None, cpf |-> None, segment |-> None,
     isCPC |-> FALSE, lastCPCAt |-> None, isNameManual |-> FALSE, createdAt |-> t]

\* A faulty variant of WriteData, for mutation analysis: a merge that only fills the columns still null.
WriteDataFillOnly(row, data) ==
    [f \in DOMAIN row |->
        IF f \in DOMAIN data /\ row[f] \in {None, <<>>} THEN data[f] ELSE row[f]]

\* prisma update/create `data`: the provided keys are written, the others kept.
WriteData(row, data) ==
    [f \in DOMAIN row |-> IF f \in DOMAIN data THEN data[f] ELSE row[f]]

\* prisma.contact.findUnique({ where: { phone } }) / findFirst({ where: { phone } })
FindByPhone(phone) == {r \in contacts : r.phone = phone}

\* prisma.contact.findUnique({ where: { id } })
FindById(id) == {r \in contacts : r.id = id}

\* prisma.conversation.updateMany({ where: { contactPhone, contactName: 'Desconhecido' }, data })
RewritePlaceholder(phone, name) ==
    [c \in Convs |->
        IF ConvPhone[c] = phone /\ convName[c] = Some(PlaceholderName)
        THEN name ELSE convName[c]]

\* prisma.conversation.updateMany({ where: { contactPhone }, data })
RewriteAll(phone, name) ==
    [c \in Convs |-> IF ConvPhone[c] = phone THEN name ELSE convName[c]]

Idle == [op |-> "idle"]

\* The handler returns (status "ok", or "renamed" after the unconditional
\* Conversation rewrite) or throws (NotFound, or the store's own error).
Finish(p, status) ==
    /\ pc' = [pc EXCEPT ![p] = "idle"]
    /\ call' = [call EXCEPT ![p] = Idle]
    /\ found' = [found EXCEPT ![p] = None]
    /\ result' = [result EXCEPT ![p] = status]

Goto(p, label) ==
    /\ pc' = [pc EXCEPT ![p] = label]
    /\ UNCHANGED <<call, found, result>>

----------------------------------------------------------------------------
(* ContactsService.create *)

\* The handler is called and its findUnique by phone runs.  (A call that will
\* insert is only started while the model has an id left for it.)
CreateFind(p, dto) ==
    /\ pc[p] = "idle"
    /\ call' = [call EXCEPT ![p] = [op |-> "create", dto |-> dto]]
    /\ result' = [result EXCEPT ![p] = "running"]
    /\ LET existingContact == FindByPhone(dto.phone) IN
       IF existingContact # {}
       THEN /\ found' = [found EXCEPT ![p] = Some(CHOOSE r \in existingContact : TRUE)]
            /\ pc' = [pc EXCEPT ![p] = "create_update"]
       ELSE /\ nextId + Cardinality({q \in Procs : pc[q] = "create_insert"}) <= MaxId
            /\ found' = [found EXCEPT ![p] = None]
            /\ pc' = [pc EXCEPT ![p] = "create_insert"]
    /\ UNCHANGED <<contacts, nextId, convName, listed, gateVars, fmtVars>>

\* prisma.contact.update({ where: { id: existingContact.id }, data: createContactDto })
CreateUpdate(p) ==
    /\ pc[p] = "create_update"
    /\ LET existing == found[p][1]
           dto == call[p].dto
           now == FindById(existing.id)
       IN IF now = {}
          THEN \* the row was removed meanwhile: the store rejects the update
               /\ Finish(p, "P2025")
               /\ UNCHANGED contacts
          ELSE /\ contacts' = (contacts \ now) \cup {WriteData(r, dto) : r \in now}
               /\ IF HasName(dto)
                  THEN Goto(p, "create_merge_rewrite")
                  ELSE Finish(p, "ok")
    /\ UNCHANGED <<nextId, convName, listed, gateVars, fmtVars>>

CreateMergeRewrite(p) ==
    /\ pc[p] = "create_merge_rewrite"
    /\ convName' = RewritePlaceholder(found[p][1].phone, call[p].dto.name)
    /\ Finish(p, "ok")
    /\ UNCHANGED <<contacts, nextId, listed, gateVars, fmtVars>>

\* prisma.contact.create({ data: createContactDto }); phone is a unique column
CreateInsert(p) ==
    /\ pc[p] = "create_insert"
    /\ LET dto == call[p].dto IN
       IF FindByPhone(dto.phone) # {}
       THEN \* unique constraint violation, thrown as the store raised it
            /\ Finish(p, "P2002")
            /\ UNCHANGED <<contacts, nextId>>
       ELSE LET contact == WriteData(ContactDefaults(nextId, nextId), dto) IN
            /\ contacts' = contacts \cup {contact}
            /\ nextId' = nextId + 1
            /\ IF HasName(dto)
               THEN /\ pc' = [pc EXCEPT ![p] = "create_new_rewrite"]
                    /\ found' = [found EXCEPT ![p] = Some(contact)]
                    /\ UNCHANGED <<call, result>>
               ELSE Finish(p, "ok")
    /\ UNCHANGED <<convName, listed, gateVars, fmtVars>>

CreateNewRewrite(p) ==
    /\ pc[p] = "create_new_rewrite"
    /\ convName' = RewritePlaceholder(found[p][1].phone, call[p].dto.name)
    /\ Finish(p, "ok")
    /\ UNCHANGED <<contacts, nextId, listed, gateVars, fmtVars>>

----------------------------------------------------------------------------
(* ContactsService.update *)

\* The handler is called and findOne(id) runs.
UpdateFind(p, id, dto) ==
    /\ pc[p] = "idle"
    /\ LET contact == FindById(id) IN
       IF contact = {}
       THEN /\ result' = [result EXCEPT ![p] = "NotFound"]
            /\ UNCHANGED <<pc, call, found>>
       ELSE LET c == CHOOSE r \in contact : TRUE IN
            /\ pc' = [pc EXCEPT ![p] = "update_write"]
            /\ call' = [call EXCEPT ![p] = [op |-> "update", id |-> id, dto |-> dto]]
            /\ found' = [found EXCEPT ![p] = Some(c)]
            /\ result' = [result EXCEPT ![p] = "running"]
    /\ UNCHANGED <<contacts, nextId, convName, listed, gateVars, fmtVars>>

\* prisma.contact.update({ where: { id }, data: updateContactDto })
UpdateWrite(p) ==
    /\ pc[p] = "update_write"
    /\ LET contact == found[p][1]
           dto == call[p].dto
           now == FindById(call[p].id)
       IN IF now = {}
          THEN /\ Finish(p, "P2025")
               /\ UNCHANGED contacts
          ELSE /\ contacts' = (contacts \ now) \cup {WriteData(r, dto) : r \in now}
               /\ IF NameChanged(dto, contact)
                  THEN Goto(p, "update_rewrite")
                  ELSE Finish(p, "ok")
    /\ UNCHANGED <<nextId, convName, listed, gateVars, fmtVars>>

UpdateRewrite(p) ==
    /\ pc[p] = "update_rewrite"
    /\ convName' = RewriteAll(found[p][1].phone, call[p].dto.name)
    /\ Finish(p, "renamed")
    /\ UNCHANGED <<contacts, nextId, listed, gateVars, fmtVars>>

----------------------------------------------------------------------------
(* ContactsService.updateByPhone *)

\* The two derived fields the handler adds to the DTO before the write.
WithDerived(dto, contact, now) ==
    LET cpc == IF "isCPC" \in DOMAIN dto
               THEN IF dto.isCPC
                    THEN [lastCPCAt |-> Some(now)]
                    ELSE [lastCPCAt |-> None]
               ELSE <<>>
        manual == IF NameChanged(dto, contact)
                  THEN [isNameManual |-> TRUE]
                  ELSE <<>>
    IN manual @@ cpc @@ dto

\* The handler is called, findByPhone runs, and the DTO gets its derived fields.
UpdateByPhoneFind(p, phone, dto) ==
    /\ pc[p] = "idle"
    /\ LET contact == FindByPhone(phone) IN
       IF contact = {}
       THEN /\ result' = [result EXCEPT ![p] = "NotFound"]
            /\ UNCHANGED <<pc, call, found>>
       ELSE LET c == CHOOSE r \in contact : TRUE IN
            /\ pc' = [pc EXCEPT ![p] = "byphone_write"]
            /\ call' = [call EXCEPT ![p] =
                          [op |-> "updateByPhone", phone |-> phone,
                           dto |-> WithDerived(dto, c, nextId)]]
            /\ found' = [found EXCEPT ![p] = Some(c)]
            /\ result' = [result EXCEPT ![p] = "running"]
    /\ UNCHANGED <<contacts, nextId, convName, listed, gateVars, fmtVars>>

\* prisma.contact.update({ where: { id: contact.id }, data: updateContactDto })
UpdateByPhoneWrite(p) ==
    /\ pc[p] = "byphone_write"
    /\ LET contact == found[p][1]
           dto == call[p].dto
           now == FindById(contact.id)
       IN IF now = {}
          THEN /\ Finish(p, "P2025")
               /\ UNCHANGED contacts
          ELSE /\ contacts' = (contacts \ now) \cup {WriteData(r, dto) : r \in now}
               /\ IF NameChanged(dto, contact)
                  THEN Goto(p, "byphone_rewrite")
                  ELSE Finish(p, "ok")
    /\ UNCHANGED <<nextId, convName, listed, gateVars, fmtVars>>

UpdateByPhoneRewrite(p) ==
    /\ pc[p] = "byphone_rewrite"
    /\ convName' = RewriteAll(call[p].phone, call[p].dto.name)
    /\ Finish(p, "renamed")
    /\ UNCHANGED <<contacts, nextId, listed, gateVars, fmtVars>>

----------------------------------------------------------------------------
(* ContactsService.remove *)

RemoveFind(p, id) ==
    /\ pc[p] = "idle"
    /\ LET contact == FindById(id) IN
       IF contact = {}
       THEN /\ result' = [result EXCEPT ![p] = "NotFound"]
            /\ UNCHANGED <<pc, call, found>>
       ELSE LET c == CHOOSE r \in contact : TRUE IN
            /\ pc' = [pc EXCEPT ![p] = "remove_delete"]
            /\ call' = [call EXCEPT ![p] = [op |-> "remove", id |-> id]]
            /\ found' = [found EXCEPT ![p] = Some(c)]
            /\ result' = [result EXCEPT ![p] = "running"]
    /\ UNCHANGED <<contacts, nextId, convName, listed, gateVars, fmtVars>>

\* prisma.contact.delete({ where: { id } })
RemoveDelete(p) ==
    /\ pc[p] = "remove_delete"
    /\ LET now == FindById(call[p].id) IN
       IF now = {}
       THEN /\ Finish(p, "P2025")
            /\ UNCHANGED contacts
       ELSE /\ contacts' = contacts \ now
            /\ Finish(p, "ok")
    /\ UNCHANGED <<nextId, convName, listed, gateVars, fmtVars>>

----------------------------------------------------------------------------
(* ContactsService.findAll *)

\* String.prototype.toLowerCase over the model's alphabet
LowerChar(c) == CASE c = "A" -> "a" [] c = "B" -> "b" [] OTHER -> c

ToLower(s) == [i \in DOMAIN s |-> LowerChar(s[i])]

\* SQL LIKE '%sub%'
Contains(s, sub) ==
    \E i \in 0..(Len(s) - Len(sub)) : SubSeq(s, i + 1, i + Len(sub)) = sub

\* JavaScript truthiness of an optional string / number argument
TruthyString(a) == a # None /\ a[1] # <<>>
TruthyNumber(a) == a # None /\ a[1] # 0

\* where: { ...(search && { OR: [...] }), ...(segment && { segment }) }
Where(r, search, segment) ==
    /\ TruthyString(search) =>
          \/ r.name # None /\ Contains(ToLower(r.name[1]), ToLower(search[1]))
          \/ Contains(r.phone, search[1])
          \/ r.cpf # None /\ Contains(r.cpf[1], search[1])
    /\ TruthyNumber(segment) => r.segment = segment

\* orderBy: { createdAt: 'desc' }
RECURSIVE OrderByCreatedAtDesc(_)
OrderByCreatedAtDesc(rows) ==
    IF rows = {} THEN <<>>
    ELSE LET newest == CHOOSE r \in rows : \A q \in rows : q.createdAt <= r.createdAt
         IN <<newest>> \o OrderByCreatedAtDesc(rows \ {newest})

FindAll(search, segment) ==
    /\ listed' = [search |-> search, segment |-> segment,
                  out |-> OrderByCreatedAtDesc(
                              {r \in contacts : Where(r, search, segment)})]
    /\ UNCHANGED <<contacts, nextId, convName, pc, call, found, result>>
    /\ UNCHANGED <<gateVars, fmtVars>>

----------------------------------------------------------------------------
(* CpcValidationService: configuration and phone normalization *)

\* this.configService.get<string>('CPC_API_URL') || ''
ConfiguredUrl(value) == IF value = None THEN "" ELSE value[1]

\* this.configService.get<string>('CPC_API_ENABLED') === 'true'
ConfiguredFlag(value) == value = Some("true")

\* A faulty variant of IsEnabled, for mutation analysis: the flag alone, without the base URL.
IsEnabledFlagOnly == enabled

IsEnabled == enabled /\ apiUrl # ""

\* The digit count above which a leading "55" is taken for the country code.
LocalDigits == 11

IsDigit(c) == c \in {"0", "1", "2", "3", "4", "5", "6", "7", "8", "9"}

FormatPhoneForPartner(phone) ==
    LET cleanPhone == SelectSeq(phone, IsDigit) IN
    IF /\ Len(cleanPhone) >= 2
       /\ SubSeq(cleanPhone, 1, 2) = <<"5", "5">>
       /\ Len(cleanPhone) > LocalDigits
    THEN SubSeq(cleanPhone, 3, Len(cleanPhone))
    ELSE cleanPhone

----------------------------------------------------------------------------
(* CpcValidationService: the partner calls *)

\* What axios can do with a request: resolve with the body of a 2xx response
\* (null when the body is JSON null), or reject with an error that carries
\* the response (an error status), only the request (no response), or neither.
Resolved(data) == [kind |-> "resolved", data |-> data]
Rejected(error) == [kind |-> "rejected", error |-> error]

StatusError(data) ==
    [response |-> Some([status |-> "500", data |-> data]), request |-> TRUE,
     message |-> "Request failed with status code 500"]
NoResponseError ==
    [response |-> None, request |-> TRUE, message |-> "timeout of 30000ms exceeded"]
SetupError ==
    [response |-> None, request |-> FALSE, message |-> "Invalid URL"]
\* response.data.mensagem on a null body
NullBodyError ==
    [response |-> None, request |-> FALSE,
     message |-> "Cannot read properties of null"]

Outcomes ==
    {Resolved(Some([sucesso |-> b, mensagem |-> "parceiro"])) : b \in BOOLEAN}
    \cup {Resolved(None)}
    \cup {Rejected(StatusError(d)) :
            d \in {None, Some([error |-> "Internal Server Error"]),
                   Some([sucesso |-> FALSE, mensagem |-> ""]),
                   Some([sucesso |-> FALSE, mensagem |-> "recusado"])}}
    \cup {Rejected(NoResponseError), Rejected(SetupError)}

\* A faulty variant of HandleApiError, for mutation analysis: the partner's own message is dropped.
HandleApiErrorGeneric(error) ==
    IF error.response # None
    THEN [sucesso |-> FALSE,
          mensagem |-> "Erro na API: " \o error.response[1].status]
    ELSE IF error.request
    THEN [sucesso |-> FALSE, mensagem |-> "API CPC indisponivel - timeout"]
    ELSE [sucesso |-> FALSE, mensagem |-> "Erro interno: " \o error.message]

\* (The fixed message reads 'API CPC indisponível - timeout' in the source.)
HandleApiError(error) ==
    IF error.response # None
    THEN LET errorData == error.response[1].data IN
         [sucesso |-> FALSE,
          mensagem |-> IF /\ errorData # None
                          /\ "mensagem" \in DOMAIN errorData[1]
                          /\ errorData[1].mensagem # ""
                       THEN errorData[1].mensagem
                       ELSE "Erro na API: " \o error.response[1].status]
    ELSE IF error.request
    THEN [sucesso |-> FALSE, mensagem |-> "API CPC indisponivel - timeout"]
    ELSE [sucesso |-> FALSE, mensagem |-> "Erro interno: " \o error.message]

\* try { ... return response.data } catch (error) { return handleApiError(...) }
Settle(outcome) ==
    IF outcome.kind = "resolved"
    THEN IF outcome.data = None
         THEN HandleApiError(NullBodyError)
         ELSE outcome.data[1]
    ELSE HandleApiError(outcome.error)

DisabledResponse == [sucesso |-> TRUE, mensagem |-> "CPC API desabilitada"]

\* The requests; telefone is the normalized phone.
ValidateRequest(phone) ==
    [method |-> "GET", endpoint |-> "validate-contract",
     telefone |-> IF phone # None /\ phone[1] # <<>>
                  THEN Some(FormatPhoneForPartner(phone[1])) ELSE None]
CheckRequest(phone) ==
    [method |-> "GET", endpoint |-> "check-acionamento",
     telefone |-> Some(FormatPhoneForPartner(phone))]
RegisterRequest(phone) ==
    [method |-> "POST", endpoint |-> "register-acionamento",
     telefone |-> Some(FormatPhoneForPartner(phone))]

\* trail entries: a request handed to axios, and a call's end with what axios
\* did and what the method returned
Issued(request) == [ev |-> "call", endpoint |-> request.endpoint, request |-> request]
Returned(endpoint, outcome) ==
    [ev |-> "done", endpoint |-> endpoint, outcome |-> outcome,
     returned |-> Settle(outcome)]

GateIdle == [op |-> "idle"]

GateShortCircuit(op, value) ==
    /\ gresult' = [op |-> op, value |-> value]
    /\ trail' = <<>>
    /\ UNCHANGED <<gpc, gcall>>

GateIssue(op, phone, label, request) ==
    /\ gpc' = label
    /\ gcall' = [op |-> op, phone |-> phone]
    /\ trail' = <<Issued(request)>>
    /\ gresult' = [op |-> op]

GateReturn(op, value) ==
    /\ gpc' = "idle"
    /\ gcall' = GateIdle
    /\ gresult' = [op |-> op, value |-> value]

ValidateContract(phone) ==
    /\ gpc = "idle"
    /\ IF ~IsEnabled
       THEN GateShortCircuit("validateContract", DisabledResponse)
       ELSE GateIssue("validateContract", phone, "validate", ValidateRequest(phone))
    /\ UNCHANGED <<apiUrl, enabled, dirVars, fmtVars>>

ValidateContractSettle(outcome) ==
    /\ gpc = "validate"
    /\ trail' = Append(trail, Returned("validate-contract", outcome))
    /\ GateReturn("validateContract", Settle(outcome))
    /\ UNCHANGED <<apiUrl, enabled, dirVars, fmtVars>>

CheckAcionamento(phone) ==
    /\ gpc = "idle"
    /\ IF ~IsEnabled
       THEN GateShortCircuit("checkAcionamento", DisabledResponse)
       ELSE GateIssue("checkAcionamento", phone, "check", CheckRequest(phone))
    /\ UNCHANGED <<apiUrl, enabled, dirVars, fmtVars>>

CheckAcionamentoSettle(outcome) ==
    /\ gpc = "check"
    /\ trail' = Append(trail, Returned("check-acionamento", outcome))
    /\ GateReturn("checkAcionamento", Settle(outcome))
    /\ UNCHANGED <<apiUrl, enabled, dirVars, fmtVars>>

RegisterAcionamento(phone) ==
    /\ gpc = "idle"
    /\ IF ~IsEnabled
       THEN GateShortCircuit("registerAcionamento", DisabledResponse)
       ELSE GateIssue("registerAcionamento", phone, "register", RegisterRequest(phone))
    /\ UNCHANGED <<apiUrl, enabled, dirVars, fmtVars>>

RegisterAcionamentoSettle(outcome) ==
    /\ gpc = "register"
    /\ trail' = Append(trail, Returned("register-acionamento", outcome))
    /\ GateReturn("registerAcionamento", Settle(outcome))
    /\ UNCHANGED <<apiUrl, enabled, dirVars, fmtVars>>

----------------------------------------------------------------------------
(* CpcValidationService.canContact *)

\* A faulty variant of Refused, for mutation analysis: a failed step no longer stops the composite.
RefusedNever(response) == FALSE

\* if (!contractValidation.sucesso) / if (!acionamentoCheck.sucesso)
Refused(response) == ~response.sucesso

CanContact(phone) ==
    /\ gpc = "idle"
    /\ IF ~IsEnabled
       THEN GateShortCircuit("canContact",
                [allowed |-> TRUE, reason |-> "CPC API desabilitada"])
       ELSE GateIssue("canContact", phone, "can_validate",
                      ValidateRequest(Some(phone)))
    /\ UNCHANGED <<apiUrl, enabled, dirVars, fmtVars>>

\* validateContract returns; on success checkAcionamento is called.
CanContactValidated(outcome) ==
    /\ gpc = "can_validate"
    /\ LET contractValidation == Settle(outcome)
           done == Returned("validate-contract", outcome)
       IN IF Refused(contractValidation)
          THEN /\ trail' = Append(trail, done)
               /\ GateReturn("canContact",
                    [allowed |-> FALSE, reason |-> contractValidation.mensagem])
          ELSE /\ trail' = trail \o <<done, Issued(CheckRequest(gcall.phone))>>
               /\ gpc' = "can_check"
               /\ UNCHANGED <<gcall, gresult>>
    /\ UNCHANGED <<apiUrl, enabled, dirVars, fmtVars>>

\* checkAcionamento returns.
CanContactChecked(outcome) ==
    /\ gpc = "can_check"
    /\ trail' = Append(trail, Returned("check-acionamento", outcome))
    /\ LET acionamentoCheck == Settle(outcome) IN
       IF Refused(acionamentoCheck)
       THEN GateReturn("canContact",
                [allowed |-> FALSE, reason |-> acionamentoCheck.mensagem])
       ELSE GateReturn("canContact",
                [allowed |-> TRUE, reason |-> "Cliente pode ser acionado"])
    /\ UNCHANGED <<apiUrl, enabled, dirVars, fmtVars>>

----------------------------------------------------------------------------
(* Applying formatPhoneForPartner, and applying it to its own result *)

FormatOnce ==
    /\ fmtOut = None
    /\ fmtOut' = Some(FormatPhoneForPartner(fmtIn))
    /\ UNCHANGED <<fmtIn, fmtTwice, dirVars, gateVars>>

FormatAgain ==
    /\ fmtOut # None
    /\ fmtTwice = None
    /\ fmtTwice' = Some(FormatPhoneForPartner(fmtOut[1]))
    /\ UNCHANGED <<fmtIn, fmtOut, dirVars, gateVars>>

----------------------------------------------------------------------------
(* Specifications *)

InitDirectory ==
    /\ contacts = {}
    /\ nextId = 1
    /\ convName = InitConvName
    /\ pc = [p \in Procs |-> "idle"]
    /\ call = [p \in Procs |-> Idle]
    /\ found = [p \in Procs |-> None]
    /\ result = [p \in Procs |-> "none"]
    /\ listed = [search |-> None, segment |-> None, out |-> <<>>]

\* The constructor, over the configurations it can be given.
InitGate ==
    /\ \E url \in {None, Some(""), Some("https://parceiro")} : apiUrl = ConfiguredUrl(url)
    /\ \E flag \in {None, Some("true"), Some("false"), Some("TRUE")} :
          enabled = ConfiguredFlag(flag)
    /\ gpc = "idle"
    /\ gcall = GateIdle
    /\ trail = <<>>
    /\ gresult = [op |-> "none"]

\* The gate as no configuration leaves it.
InitGateUnset ==
    /\ apiUrl = ConfiguredUrl(None)
    /\ enabled = ConfiguredFlag(None)
    /\ gpc = "idle"
    /\ gcall = GateIdle
    /\ trail = <<>>
    /\ gresult = [op |-> "none"]

InitFormatUnset ==
    /\ fmtIn = <<>>
    /\ fmtOut = None
    /\ fmtTwice = None

InitContacts == InitDirectory /\ InitGateUnset /\ InitFormatUnset

CreateSteps(p) ==
    \/ CreateUpdate(p) \/ CreateMergeRewrite(p)
    \/ CreateInsert(p) \/ CreateNewRewrite(p)

UpdateSteps(p) ==
    \/ UpdateWrite(p) \/ UpdateRewrite(p)
    \/ UpdateByPhoneWrite(p) \/ UpdateByPhoneRewrite(p)

\* upsertByPhone on two phones: the name absent, empty, blank, real, padded
UpsertDtos ==
    {[phone |-> P1], [phone |-> P2], [phone |-> P2, name |-> Some(<<"A">>)]}
    \cup {[phone |-> P1, name |-> Some(n)] :
            n \in {<<>>, <<" ">>, <<"A">>, <<" ", "B">>}}

NextUpsert ==
    \E p \in Procs :
        \/ \E dto \in UpsertDtos : CreateFind(p, dto)
        \/ \E id \in 1..MaxId : RemoveFind(p, id)
        \/ CreateSteps(p)
        \/ RemoveDelete(p)

\* Concurrent upserts and removals.
SpecUpsert == InitContacts /\ [][NextUpsert]_vars

\* update / updateByPhone patches: a rename, a CPC mark, a CPC unmark
Patches ==
    {[name |-> Some(<<"A">>)], [name |-> Some(<<"B">>)],
     [isCPC |-> TRUE], [isCPC |-> FALSE]}

UpdateDtos == {[phone |-> P1], [phone |-> P1, name |-> Some(<<"A">>)]}

NextUpdate ==
    \E p \in Procs :
        \/ \E dto \in UpdateDtos : CreateFind(p, dto)
        \/ \E id \in 1..MaxId, dto \in Patches : UpdateFind(p, id, dto)
        \/ \E dto \in Patches : UpdateByPhoneFind(p, P1, dto)
        \/ \E id \in 1..MaxId : RemoveFind(p, id)
        \/ CreateSteps(p)
        \/ UpdateSteps(p)
        \/ RemoveDelete(p)

\* Concurrent updates of one contact, by id and by phone.
SpecUpdate == InitContacts /\ [][NextUpdate]_vars

ListDtos ==
    {[phone |-> P1, segment |-> Some(0)],
     [phone |-> P1, name |-> Some(<<"A", "b">>), segment |-> Some(1)],
     [phone |-> P2, cpf |-> Some(<<"5", "7">>)],
     [phone |-> P2, segment |-> Some(0)]}

Searches == {None, Some(<<>>), Some(<<"a">>), Some(<<"5">>)}
Segments == {None, Some(0), Some(1)}

NextList ==
    \/ \E p \in Procs :
          \/ \E dto \in ListDtos : CreateFind(p, dto)
          \/ CreateSteps(p)
    \/ \E search \in Searches, segment \in Segments : FindAll(search, segment)

\* Upserts and listings.
SpecList == InitContacts /\ [][NextList]_vars

\* The phone arguments of the gate: none, empty, local, with country code.
GatePhones ==
    {<<>>, <<"1", "1", "9">>,
     <<"+", "5", "5", " ", "1", "1", "9", "1", "2", "3", "4", "5", "6", "7", "8">>}

NextGate ==
    \/ \E phone \in {None} \cup {Some(ph) : ph \in GatePhones} : ValidateContract(phone)
    \/ \E phone \in GatePhones :
          \/ CheckAcionamento(phone)
          \/ RegisterAcionamento(phone)
          \/ CanContact(phone)
    \/ \E outcome \in Outcomes :
          \/ ValidateContractSettle(outcome)
          \/ CheckAcionamentoSettle(outcome)
          \/ RegisterAcionamentoSettle(outcome)
          \/ CanContactValidated(outcome)
          \/ CanContactChecked(outcome)

\* The gate under every configuration and every partner behaviour.
InitGateSpec == InitDirectory /\ InitGate /\ InitFormatUnset

SpecGate == InitGateSpec /\ [][NextGate]_vars

\* Longest phone string handed to the normalization.
MaxPhoneLen == 14

DigitStrings == UNION {[1..n -> {"5", "1"}] : n \in 0..MaxPhoneLen}

\* Digit strings, bare and written with a "+" in front.
FormatInputs == DigitStrings \cup {<<"+">> \o d : d \in DigitStrings}

InitFormat ==
    /\ fmtIn \in FormatInputs
    /\ fmtOut = None
    /\ fmtTwice = None

NextFormat == FormatOnce \/ FormatAgain

\* formatPhoneForPartner on every input, once and twice.
InitFormatSpec == InitDirectory /\ InitGateUnset /\ InitFormat

SpecFormat == InitFormatSpec /\ [][NextFormat]_vars

----------------------------------------------------------------------------
(* Claims about the contact directory *)

Stepped(p, labels) == pc[p] \in labels /\ pc'[p] # pc[p]

\* C1: the store holds at most one Contact row per phone; an upsertByPhone
\* whose phone already exists takes the merge path on that very row, and its
\* write adds no row, keeps the row's id and phone, overwrites every field the
\* call provides and leaves the other fields as they were.
C1_OneRowPerPhone ==
    /\ [](\A r, q \in contacts : r.phone = q.phone => r = q)
    /\ [][\A p \in Procs :
            (pc[p] = "idle" /\ pc'[p] \in {"create_update", "create_insert"}) =>
                LET same == {r \in contacts : r.phone = call'[p].dto.phone} IN
                IF same = {}
                THEN pc'[p] = "create_insert"
                ELSE pc'[p] = "create_update" /\ found'[p][1] \in same]_vars
    /\ [][\A p \in Procs :
            (Stepped(p, {"create_update"}) /\ result'[p] # "P2025") =>
                /\ Cardinality(contacts') = Cardinality(contacts)
                /\ \E old \in contacts, new \in contacts' :
                      /\ old.id = found[p][1].id
                      /\ new.id = old.id
                      /\ new.phone = old.phone
                      /\ contacts' \ {new} = contacts \ {old}
                      /\ \A f \in DOMAIN new :
                            new[f] = IF f \in DOMAIN call[p].dto
                                     THEN call[p].dto[f] ELSE old[f]]_vars

\* C1 witness: a second upsert has just overwritten the name of the one
\* existing row of its phone.
C1_Witness ==
    \E p \in Procs :
        /\ pc[p] = "create_merge_rewrite"
        /\ Cardinality(contacts) = 1
        /\ \E r \in contacts :
              /\ r.id = found[p][1].id
              /\ found[p][1].name \notin {None, call[p].dto.name}
              /\ r.name = call[p].dto.name

\* C2: when an upsert's insert finds that a racing upsert has created the row
\* of its phone meanwhile, the call fails with a Conflict error and the store
\* is left as the winner wrote it.
C2_RaceEndsInConflict ==
    [][\A p \in Procs :
          (Stepped(p, {"create_insert"})
              /\ \E r \in contacts : r.phone = call[p].dto.phone) =>
                 (result'[p] = "Conflict" /\ contacts' = contacts)]_vars

\* C3: once every caller's update (by id or by phone) that changed the name
\* has completed, every Conversation of the contact's phone carries the
\* Contact's stored name.
C3_NameNeverDrifts ==
    (\A p \in Procs : pc[p] = "idle" /\ result[p] = "renamed") =>
        \A r \in contacts, c \in Convs :
            ConvPhone[c] = r.phone => convName[c] = r.name

\* The name of a DTO is present and has a character that is not whitespace.
NonBlankName(dto) ==
    /\ "name" \in DOMAIN dto
    /\ dto.name # None
    /\ \E i \in DOMAIN dto.name[1] : dto.name[1][i] \notin {" ", "\t", "\n"}

\* C4: an upsert whose name is present and non-blank rewrites contactName to
\* that name on exactly the Conversations of its phone that hold the
\* placeholder; every other Conversation, and every Conversation when the name
\* is absent or blank, is left unchanged.
C4_PlaceholderOnlyRewrite ==
    [][\A p \in Procs :
          LET dto == call[p].dto IN
          /\ Stepped(p, {"create_update", "create_insert"}) =>
                /\ convName' = convName
                /\ result'[p] \in {"P2025", "P2002"}
                      \/ (pc'[p] \in {"create_merge_rewrite", "create_new_rewrite"}
                             <=> NonBlankName(dto))
          /\ Stepped(p, {"create_merge_rewrite", "create_new_rewrite"}) =>
                /\ result'[p] = "ok"
                /\ \A c \in Convs :
                      convName'[c] =
                          IF ConvPhone[c] = dto.phone
                                 /\ convName[c] = Some(PlaceholderName)
                          THEN dto.name ELSE convName[c]]_vars

\* C4 witness: an upsert with a real name has completed; the placeholder
\* Conversation of its phone carries the name, the Conversation with a name
\* from elsewhere and the other phone's placeholder Conversation are as before.
C4_Witness ==
    /\ \E p \in Procs : result[p] = "ok"
    /\ \E r \in contacts : r.phone = P1 /\ r.name = Some(<<"A">>)
    /\ convName["k1"] = Some(<<"A">>)
    /\ convName["k2"] = Some(<<"Z">>)
    /\ convName["k3"] = Some(PlaceholderName)

\* C5: a Contact's lastCPCAt is non-null exactly when its isCPC is true.
C5_FlagAndStampAgree ==
    \A r \in contacts : (r.lastCPCAt # None) <=> r.isCPC

\* A row satisfies every filter findAll was given.
Fits(r, search, segment) ==
    /\ segment # None => r.segment = segment
    /\ search # None =>
          \/ r.name # None /\ Contains(ToLower(r.name[1]), ToLower(search[1]))
          \/ Contains(r.phone, search[1])
          \/ r.cpf # None /\ Contains(r.cpf[1], search[1])

\* C10: findAll returns exactly the Contacts that satisfy every filter it was
\* given (a segment of 0 included), each once, newest first.
C10_ListIsExactlyTheMatches ==
    [][listed' # listed =>
          LET out == listed'.out IN
          /\ {out[i] : i \in DOMAIN out} =
                 {r \in contacts : Fits(r, listed'.search, listed'.segment)}
          /\ \A i, j \in DOMAIN out : i < j => out[i].createdAt > out[j].createdAt]_vars

----------------------------------------------------------------------------
(* Claims about the contactability gate *)

CallsTo(endpoint) ==
    {i \in DOMAIN trail : trail[i].ev = "call" /\ trail[i].endpoint = endpoint}

ReturnsOf(endpoint) ==
    {i \in DOMAIN trail : trail[i].ev = "done" /\ trail[i].endpoint = endpoint}

\* C6: in canContact on an enabled gate, checkAcionamento is only called
\* after validateContract has returned success, and registerAcionamento never;
\* the result is allowed=false with the message of the first step that
\* reported sucesso=false, and allowed=true only when both reported success.
C6_ValidateThenCheck ==
    (enabled /\ apiUrl # "" /\ gresult.op = "canContact") =>
        /\ CallsTo("register-acionamento") = {}
        /\ \A i \in CallsTo("check-acionamento") :
              \E j \in ReturnsOf("validate-contract") :
                  j < i /\ trail[j].returned.sucesso
        /\ gpc = "idle" =>
              \E j \in ReturnsOf("validate-contract") :
                  LET v == trail[j].returned IN
                  IF ~v.sucesso
                  THEN /\ gresult.value = [allowed |-> FALSE, reason |-> v.mensagem]
                       /\ CallsTo("check-acionamento") = {}
                  ELSE \E k \in ReturnsOf("check-acionamento") :
                          LET c == trail[k].returned IN
                          IF ~c.sucesso
                          THEN gresult.value =
                                   [allowed |-> FALSE, reason |-> c.mensagem]
                          ELSE gresult.value.allowed

\* C6 witness: canContact has ended refused by validateContract, with the
\* partner's message, after that one call alone.
C6_Witness ==
    /\ gpc = "idle"
    /\ gresult = [op |-> "canContact",
                  value |-> [allowed |-> FALSE, reason |-> "parceiro"]]
    /\ Len(trail) = 2
    /\ trail[2].endpoint = "validate-contract"

\* C7: on an enabled gate every operation ends with a result value; a call the
\* partner failed returns sucesso=false with the partner's message if it sent
\* one, else the status message, the fixed unavailable message when there was
\* no response, the internal-error message for a local error; no endpoint is
\* called twice in one operation, and canContact then returns allowed=false.
C7_FailuresBecomeResults ==
    (enabled /\ apiUrl # "") =>
        /\ \A i \in DOMAIN trail :
              (trail[i].ev = "done" /\ trail[i].outcome.kind = "rejected") =>
                  LET e == trail[i].outcome.error
                      r == trail[i].returned
                  IN /\ r.sucesso = FALSE
                     /\ r.mensagem =
                          IF e.response # None
                          THEN LET body == e.response[1].data
                                   sent == /\ body # None
                                           /\ "mensagem" \in DOMAIN body[1]
                                           /\ body[1].mensagem # ""
                               IN IF sent THEN body[1].mensagem
                                  ELSE "Erro na API: 500"
                          ELSE IF e.request
                          THEN "API CPC indisponivel - timeout"
                          ELSE "Erro interno: " \o e.message
        /\ \A i, j \in DOMAIN trail :
              (trail[i].ev = "call" /\ trail[j].ev = "call"
                  /\ trail[i].endpoint = trail[j].endpoint) => i = j
        /\ (gpc = "idle" /\ gresult.op # "none") =>
              /\ "value" \in DOMAIN gresult
              /\ gresult.op # "canContact" =>
                    gresult.value = trail[Len(trail)].returned
              /\ (gresult.op = "canContact"
                     /\ \E i \in DOMAIN trail :
                           trail[i].ev = "done" /\ trail[i].outcome.kind = "rejected")
                    => gresult.value.allowed = FALSE

\* C7 witness: a raw operation has returned the partner's own error message,
\* and nothing was called twice.
C7_Witness ==
    /\ gpc = "idle"
    /\ gresult = [op |-> "registerAcionamento",
                  value |-> [sucesso |-> FALSE, mensagem |-> "recusado"]]
    /\ Len(trail) = 2

\* C8: with the enabled flag not true or the base URL empty, no partner call
\* is ever issued, every raw operation returns sucesso=true and canContact
\* returns allowed=true.
C8_DisabledGateIsOpen ==
    (~enabled \/ apiUrl = "") =>
        /\ trail = <<>>
        /\ gpc = "idle"
        /\ gresult.op \in {"validateContract", "checkAcionamento",
                           "registerAcionamento"} => gresult.value.sucesso
        /\ gresult.op = "canContact" => gresult.value.allowed

\* C8 witness: the flag is set but there is no base URL, and canContact has
\* answered.
C8_Witness ==
    /\ enabled
    /\ apiUrl = ""
    /\ gresult.op = "canContact"
    /\ gresult.value.allowed

\* C9: normalizing a normalized phone changes nothing.
C9_NormalizeIsIdempotent ==
    fmtTwice # None => fmtTwice = fmtOut

====
